---------------------------- MODULE Spec2Model ----------------------------
(***************************************************************************)
(* A model of the car-driving environment of env.py (class CarEnv) and of  *)
(* the loops that drive it.                                                *)
(*                                                                         *)
(* Python floats are modelled in fixed point:                              *)
(*   positions and lengths   in 1/PosScale world units,                    *)
(*   speed and distance      in 1/SpeedScale world units,                  *)
(*   rewards and fitness     in 1/RewScale,                                *)
(*   sines and cosines       in 1/TrigScale,                               *)
(*   action components       in 1/ActScale,                                *)
(*   headings                in whole degrees (steer * 4 is a whole number *)
(*                           of degrees for every action of the model).    *)
(* int() is truncation toward zero, as in Python.                          *)
(***************************************************************************)
EXTENDS Integers, Naturals, Sequences, FiniteSets, TLC

-----------------------------------------------------------------------------
(* Program constants, env.py lines 6-9.                                    *)
SCREEN_W == 800
SCREEN_H == 600
ROAD_RADIUS == 40
MAX_SPEED == 8
MAX_STEPS_WITHOUT_IMPROVEMENT == 100

(* Fixed-point resolutions of the model.                                   *)
PosScale == 32
SpeedScale == 1000
RewScale == 100000
TrigScale == 1000
ActScale == 2
ObsScale == 1500

-----------------------------------------------------------------------------
(* Arithmetic helpers.                                                     *)

Abs(a) == IF a < 0 THEN -a ELSE a

Max(a, b) == IF a > b THEN a ELSE b

Min(a, b) == IF a < b THEN a ELSE b

(* a / b truncated toward zero (b > 0): Python's int() of a quotient.      *)
Trunc(a, b) == IF a >= 0 THEN a \div b ELSE -((-a) \div b)

(* a / b rounded to the nearest integer (b > 0): a float quotient kept in  *)
(* fixed point.                                                            *)
Round(a, b) == IF a >= 0 THEN (2 * a + b) \div (2 * b)
                         ELSE -((-2 * a + b) \div (2 * b))

(* np.clip(v, lo, hi)                                                      *)
clip(v, lo, hi) == Max(lo, Min(hi, v))

(* a * m / d for a >= 0 without overflowing 32 bits (rounded down).        *)
MulDiv(a, m, d) == (a \div d) * m + ((a % d) * m) \div d

RECURSIVE ISqrtIter(_, _, _)
ISqrtIter(n, lo, hi) ==
    IF lo >= hi THEN lo
    ELSE LET mid == (lo + hi + 1) \div 2
         IN  IF mid * mid <= n THEN ISqrtIter(n, mid, hi)
                               ELSE ISqrtIter(n, lo, mid - 1)

(* floor(sqrt(n)) for 0 <= n < 2^31                                        *)
ISqrt(n) == ISqrtIter(n, 0, 46340)

(* math.hypot(dx, dy), rounded down                                        *)
hypot(dx, dy) == ISqrt(dx * dx + dy * dy)

(* sin of 0..90 degrees, in 1/TrigScale                                    *)
SinTab ==
  << 0, 17, 35, 52, 70, 87, 105, 122, 139, 156, 174, 191, 208, 225, 242,
     259, 276, 292, 309, 326, 342, 358, 375, 391, 407, 423, 438, 454, 469,
     485, 500, 515, 530, 545, 559, 574, 588, 602, 616, 629, 643, 656, 669,
     682, 695, 707, 719, 731, 743, 755, 766, 777, 788, 799, 809, 819, 829,
     839, 848, 857, 866, 875, 883, 891, 899, 906, 914, 921, 927, 934, 940,
     946, 951, 956, 961, 966, 970, 974, 978, 982, 985, 988, 990, 993, 995,
     996, 998, 999, 999, 1000, 1000 >>

(* math.sin(math.radians(deg)) for a whole number of degrees               *)
Sin(deg) ==
    LET d == deg % 360
    IN  IF d <= 90 THEN SinTab[d + 1]
        ELSE IF d <= 180 THEN SinTab[180 - d + 1]
        ELSE IF d <= 270 THEN -SinTab[d - 180 + 1]
        ELSE -SinTab[360 - d + 1]

(* math.cos(math.radians(deg))                                             *)
Cos(deg) == Sin(deg + 90)

(* The projection of (dx, dy) on the unit vector of direction d.           *)
Projection(dy, dx, d) == Cos(d) * dx + Sin(d) * dy

(* The first direction of lo..hi with the largest projection (found by     *)
(* halving the range).                                                     *)
RECURSIVE ArgMaxDir(_, _, _, _)
ArgMaxDir(dy, dx, lo, hi) ==
    IF lo = hi THEN lo
    ELSE LET mid == (lo + hi) \div 2
             a == ArgMaxDir(dy, dx, lo, mid)
             b == ArgMaxDir(dy, dx, mid + 1, hi)
         IN  IF Projection(dy, dx, b) > Projection(dy, dx, a) THEN b ELSE a

(* math.degrees(math.atan2(dy, dx)) to the nearest degree in -179..180:    *)
(* the direction whose unit vector has the largest projection on (dx, dy). *)
atan2deg(dy, dx) == ArgMaxDir(dy, dx, -179, 180)

-----------------------------------------------------------------------------
(* Spline Builder: catmull_rom_chain, env.py lines 12-28.                  *)

(* Control points of the track, env.py lines 39-43.                        *)
pts == << <<120, 520>>, <<250, 560>>, <<500, 540>>, <<700, 450>>,
          <<740, 300>>, <<700, 160>>, <<500, 80>>, <<250, 120>>,
          <<120, 250>> >>

(* count=600 at the call of catmull_rom_chain, env.py line 44.             *)
CENTERLINE_COUNT == 600

(* P = P[-2:] + P + P[:2], 1-based; a slice of a list shorter than 2 is    *)
(* the whole list.                                                         *)
Padded(points) ==
    LET n == Len(points)
    IN  SubSeq(points, Max(1, n - 1), n) \o points \o SubSeq(points, 1, Min(2, n))

(* One sample of one segment: the blend of p0..p3 at t = k / m, where      *)
(* m = samples - 1 (np.linspace(0, 1, samples) includes both ends).  The   *)
(* weights f1..f4 are taken over the common denominator 2 * m^3; the value *)
(* is returned in 1/PosScale units.                                        *)
Blend(c0, c1, c2, c3, k, m) ==
    LET k2 == k * k
        k3 == k * k * k
        m2 == m * m
        m3 == m * m * m
        f1 == -k3 + 2 * m * k2 - m2 * k
        f2 == 3 * k3 - 5 * m * k2 + 2 * m3
        f3 == -3 * k3 + 4 * m * k2 + m2 * k
        f4 == k3 - m * k2
        num == c0 * f1 + c1 * f2 + c2 * f3 + c3 * f4
    IN  MulDiv(num, PosScale, 2 * m3)

(* The samples of segment i (2-based in the padded list as in the source,  *)
(* here i is the 1-based index of p1 in the padded list).                  *)
Segment(P, i, samples) ==
    [ j \in 1..samples |->
        IF samples = 1
        THEN << P[i][1] * PosScale, P[i][2] * PosScale >>
        ELSE << Blend(P[i-1][1], P[i][1], P[i+1][1], P[i+2][1], j - 1, samples - 1),
                Blend(P[i-1][2], P[i][2], P[i+1][2], P[i+2][2], j - 1, samples - 1) >> ]

RECURSIVE ChainFrom(_, _, _)
ChainFrom(P, i, samples) ==
    IF i > Len(P) - 2 THEN << >>
    ELSE Segment(P, i, samples) \o ChainFrom(P, i + 1, samples)

(* catmull_rom_chain(points, count): the closed centerline, one point per  *)
(* sample, count // len(points) samples for each control point.  With      *)
(* fewer than 2 points range(2, len(P) - 2) is empty and the curve is [].  *)
catmull_rom_chain(points, count) ==
    IF Len(points) < 2 THEN << >>
    ELSE ChainFrom(Padded(points), 3, count \div Len(points))

(* self.centerline, env.py line 44 (points in 1/PosScale units).           *)
centerline == catmull_rom_chain(pts, CENTERLINE_COUNT)

NumSamples == Len(centerline)


-----------------------------------------------------------------------------
(* Track Field: the surface and mask built in __init__, env.py lines 46-53. *)

(* (int(x), int(y)) of every centerline sample, env.py line 51.            *)
CenterPixels ==
    [ i \in 1..NumSamples |->
        << Trunc(centerline[i][1], PosScale), Trunc(centerline[i][2], PosScale) >> ]

(* Half the width of a filled disk of ROAD_RADIUS at each distance dy from *)
(* its centre row.                                                         *)
HalfWidth ==
    [ dy \in 0..ROAD_RADIUS |-> ISqrt(ROAD_RADIUS * ROAD_RADIUS - dy * dy) ]

(* The pixels of row r that pygame.draw.circle fills for a disk of         *)
(* ROAD_RADIUS around pixel c, clipped to the surface.                     *)
DiskRow(c, r) ==
    LET w == HalfWidth[Abs(r - c[2])]
    IN  Max(0, c[1] - w) .. Min(SCREEN_W - 1, c[1] + w)

(* self.track_mask: for each row of the surface the set of road-coloured   *)
(* columns (the union of the disks stamped at every centerline sample).    *)
track_mask ==
    [ r \in 0..(SCREEN_H - 1) |->
        UNION { DiskRow(CenterPixels[i], r) :
                  i \in { j \in 1..NumSamples :
                            Abs(r - CenterPixels[j][2]) <= ROAD_RADIUS } } ]

(* A variant of _on_track that moves a pixel outside the surface to the    *)
(* nearest pixel of the surface and reads the mask there.                  *)
_on_track_nearest(c, r) ==
    clip(c, 0, SCREEN_W - 1) \in track_mask[clip(r, 0, SCREEN_H - 1)]

(* CarEnv._on_track(x, y), env.py lines 182-185, on integer pixels         *)
(* (column c, row r).                                                      *)
_on_track(c, r) ==
    IF c < 0 \/ r < 0 \/ c >= SCREEN_W \/ r >= SCREEN_H
    THEN FALSE
    ELSE c \in track_mask[r]

-----------------------------------------------------------------------------
(* Gate Set: CarEnv._make_gates, env.py lines 64-78.                       *)

(* n at the call self._make_gates(12), env.py line 56.                     *)
GATE_COUNT == 12

(* The lookahead (i+5) used for tangents, env.py lines 70, 82 and 129.     *)
LOOKAHEAD == 5

(* The gate built at 0-based centerline index i: the segment of half       *)
(* length ROAD_RADIUS perpendicular to the local direction.                *)
GateAt(i) ==
    LET c   == centerline[i + 1]
        n   == centerline[((i + LOOKAHEAD) % NumSamples) + 1]
        dx  == n[1] - c[1]
        dy  == n[2] - c[2]
        h   == hypot(dx, dy)
        len == IF h = 0 THEN PosScale ELSE h
        px  == Round(-dy * ROAD_RADIUS * PosScale, len)
        py  == Round(dx * ROAD_RADIUS * PosScale, len)
    IN  << << c[1] - px, c[2] - py >>, << c[1] + px, c[2] + py >> >>

(* The 0-based indices range(0, len(self.centerline), step) visits.        *)
GateIndices(n) ==
    LET step == NumSamples \div n
    IN  { i \in 0..(NumSamples - 1) : i % step = 0 }

(* _make_gates(n): one gate for each index of range(0, len, len // n), in  *)
(* the order of the centerline.                                            *)
_make_gates(n) ==
    LET step == NumSamples \div n
    IN  [ g \in 1..Cardinality(GateIndices(n)) |-> GateAt((g - 1) * step) ]

(* self.gates, env.py line 56.                                             *)
gates == _make_gates(GATE_COUNT)

-----------------------------------------------------------------------------
(* Segment intersection, env.py lines 169-176.                             *)

_ccw(A, B, C) ==
    (C[2] - A[2]) * (B[1] - A[1]) > (B[2] - A[2]) * (C[1] - A[1])

_intersect(A, B, C, D) ==
    /\ _ccw(A, C, D) # _ccw(B, C, D)
    /\ _ccw(A, B, C) # _ccw(A, B, D)

_crossed_line(old_pos, new_pos, p1, p2) == _intersect(old_pos, new_pos, p1, p2)

-----------------------------------------------------------------------------
(* Sensor Array: _cast_ray and _get_obs, env.py lines 187-201.             *)

(* The relative ray angles of _get_obs, env.py line 189.                   *)
SensorAngles == << -75, -50, -25, 0, 25, 50, 75 >>

(* range(1, 150) in _cast_ray, env.py line 196.                            *)
RAY_RANGE_END == 150

(* The marching step i * 4, env.py lines 197-200.                          *)
RAY_STEP == 4

(* The value returned when no probe leaves the road, env.py line 201.      *)
RAY_MAX == 600

(* The divisor of the sensor readings, env.py line 191.                    *)
SENSOR_NORM == 150

(* The pixel probed at marching step i of a ray of direction ang cast from *)
(* (px, py): (int(x + dx * i * 4), int(y + dy * i * 4)).                   *)
ProbePoint(px, py, ang, i) ==
    << px + Round(Cos(ang) * i * RAY_STEP * PosScale, TrigScale),
       py + Round(Sin(ang) * i * RAY_STEP * PosScale, TrigScale) >>

ProbePixel(px, py, ang, i) ==
    LET p == ProbePoint(px, py, ang, i)
    IN  << Trunc(p[1], PosScale), Trunc(p[2], PosScale) >>

(* The first marching step of lo..hi whose pixel is off the road, or 0 if   *)
(* there is none (found by halving the range, left half first).            *)
RECURSIVE FirstOff(_, _, _, _, _)
FirstOff(px, py, ang, lo, hi) ==
    IF lo = hi
    THEN LET p == ProbePixel(px, py, ang, lo)
         IN  IF ~ _on_track(p[1], p[2]) THEN lo ELSE 0
    ELSE LET mid == (lo + hi) \div 2
             a == FirstOff(px, py, ang, lo, mid)
         IN  IF a # 0 THEN a ELSE FirstOff(px, py, ang, mid + 1, hi)

(* A variant of _cast_ray that returns the distance of the last probe      *)
(* still on the road.                                                      *)
_cast_ray_last_on(px, py, ang) ==
    LET i == FirstOff(px, py, ang, 1, RAY_RANGE_END - 1)
    IN  IF i # 0 THEN (i - 1) * RAY_STEP ELSE RAY_MAX

(* CarEnv._cast_ray(ang) for a car at (px, py): for i in range(1, 150),    *)
(* return i * 4 at the first pixel off the road, else 600.                 *)
_cast_ray(px, py, ang) ==
    LET i == FirstOff(px, py, ang, 1, RAY_RANGE_END - 1)
    IN  IF i # 0 THEN i * RAY_STEP ELSE RAY_MAX

(* CarEnv._get_obs(): the sensor readings divided by 150.0, then           *)
(* speed / MAX_SPEED; all in 1/ObsScale.                                   *)
_get_obs(px, py, ang, spd) ==
    [ k \in 1..(Len(SensorAngles) + 1) |->
        IF k <= Len(SensorAngles)
        THEN Round(_cast_ray(px, py, ang + SensorAngles[k]) * ObsScale, SENSOR_NORM)
        ELSE Round(spd * ObsScale, MAX_SPEED * SpeedScale) ]

-----------------------------------------------------------------------------
(* Bounds of the model.                                                    *)

(* Ticks for which a free driver picks any action at every tick.           *)
FreeTicks == 2

(* Ticks for which a scenario driver repeats its one action.               *)
HoldTicks == 104

(* Ticks for which the sensor-driven driver is followed.                   *)
PilotTicks == 260

(* The largest spawn offset a caller passes to reset: train.py lines 30    *)
(* and 73 pass 0..POP_SIZE.                                                *)
POP_SIZE == 20

Offsets == 0..POP_SIZE

(* Raw actions (steer, throttle, brake) in 1/ActScale, in and out of the   *)
(* nominal ranges, that the free driver picks from.                        *)
FreeActions ==
    { << 0, 0, 0 >>, << 0, 2, 0 >>, << 2, 0, 0 >>, << -2, 2, 0 >>,
      << 1, 2, 2 >>, << 0, 0, 2 >>, << 5, 3, -1 >>, << -3, -2, 4 >> }

(* The actions the scenario drivers repeat: rest, full throttle straight   *)
(* ahead, full steer without throttle.                                     *)
HeldActions == { << 0, 0, 0 >>, << 0, 2, 0 >>, << 2, 0, 0 >> }

NoAction == << 0, 0, 0 >>

Drivers ==
    { [kind |-> "free", action |-> NoAction],
      [kind |-> "pilot", action |-> NoAction] }
    \cup { [kind |-> "hold", action |-> a] : a \in HeldActions }

-----------------------------------------------------------------------------
(* The state of one CarEnv and of the caller that drives it.               *)
VARIABLES
    x, y,                     \* self.x, self.y                (1/PosScale)
    angle,                    \* self.angle                    (degrees)
    speed,                    \* self.speed                    (1/SpeedScale)
    done,                     \* self.done
    distance,                 \* self.distance                 (1/SpeedScale)
    lifetime,                 \* self.lifetime
    next_gate,                \* self.next_gate                (0-based)
    steps_since_gate,         \* self.steps_since_gate
    steps_since_improvement,  \* self.steps_since_improvement
    last_fitness,             \* self.last_fitness             (1/RewScale)
    obs,                      \* the observation last returned (1/ObsScale)
    reward,                   \* the reward last returned      (1/RewScale)
    op,                       \* the call last made: "reset" or "step"
    act,                      \* the raw action of the last step
    driver,                   \* the caller's way of choosing actions
    spawn_offset,             \* the offset passed to the last reset
    crashed,                  \* some step of this episode ended off the road
    best_seen,                \* the largest fitness progress of this episode
    stale,                    \* ticks since fitness progress last grew
    timed_out                 \* some step of this episode left the stagnation
                              \* counter above the limit

vehicle_vars ==
        << x, y, angle, speed, done, distance, lifetime, next_gate,
           steps_since_gate, steps_since_improvement, last_fitness,
           obs, reward, op, act, driver, spawn_offset, crashed, best_seen,
           stale, timed_out >>

(* One call of a track-building function outside a running episode.        *)
VARIABLES
    build                     \* the function called, its arguments and outcome

(* No building call is under way.                                          *)
BuildIdle ==
    build = [ fn |-> "none", points |-> << >>, count |-> 0, n |-> 0,
              phase |-> "idle", raised |-> "none", curve |-> << >>,
              made |-> << >> ]

(* Several CarEnv objects alive at once, as in the population of          *)
(* train.py, and what their callers did with them.                         *)
VARIABLES
    fleet,                    \* the fields of each CarEnv object
    episodes                  \* per object: the offset and actions of its
                              \* current episode and the values returned

fleet_vars == << fleet, episodes >>

(* No fleet exists.                                                        *)
FleetIdle ==
    /\ fleet = << >>
    /\ episodes = << >>

(* The loops of train.py and eval.py.                                      *)
VARIABLES
    population,               \* population: entries with a car and "steps"
    alive_population,         \* alive_population of the frame under way
    cursor,                   \* position of `for entry in population`
    generation,               \* generation
    replacements_this_gen,    \* replacements_this_gen
    total_replacements,       \* total_replacements
    pc,                       \* "init", "frame" (train.py) or "eval" (eval.py)
    eval_env,                 \* env, done and the ticks taken in run_best
    called                    \* the last thing the loop did with a car, and
                              \* the car's done flag and "steps" just before

loop_vars == << population, alive_population, cursor, generation,
                replacements_this_gen, total_replacements, pc, eval_env,
                called >>

(* No loop is running.                                                     *)
LoopIdle ==
    /\ population = << >>
    /\ alive_population = << >>
    /\ cursor = 0
    /\ generation = 0
    /\ replacements_this_gen = 0
    /\ total_replacements = 0
    /\ pc = "none"
    /\ eval_env = [done |-> FALSE, ticks |-> 0]
    /\ called = [op |-> "none", was_done |-> FALSE, steps |-> 0]

aux_vars == << build, fleet_vars, loop_vars >>

AuxIdle == BuildIdle /\ FleetIdle /\ LoopIdle

vars == << vehicle_vars, aux_vars >>

-----------------------------------------------------------------------------
(* CarEnv.reset, env.py lines 80-104.                                      *)

(* The unnormalised initial tangent (tx - base_x, ty - base_y).            *)
SpawnTangent ==
    << centerline[LOOKAHEAD + 1][1] - centerline[1][1],
       centerline[LOOKAHEAD + 1][2] - centerline[1][2] >>

(* The spacing offset * 20 of spawn positions, env.py lines 87-88.         *)
SPAWN_SPACING == 20

(* (self.x, self.y) set by reset(offset).                                  *)
SpawnPos(offset) ==
    LET len == hypot(SpawnTangent[1], SpawnTangent[2])
    IN  << centerline[1][1] - Round(SpawnTangent[1] * offset * SPAWN_SPACING * PosScale, len),
           centerline[1][2] - Round(SpawnTangent[2] * offset * SPAWN_SPACING * PosScale, len) >>

(* self.angle set by reset.                                                *)
SpawnAngle == atan2deg(SpawnTangent[2], SpawnTangent[1])

(* The fields reset(offset) assigns, and the observation it returns        *)
(* (_get_obs() at the spawn pose).                                         *)
ResetFields(offset) ==
    [ offset |-> offset,
      x |-> SpawnPos(offset)[1],
      y |-> SpawnPos(offset)[2],
      angle |-> SpawnAngle,
      speed |-> 0,
      done |-> FALSE,
      distance |-> 0,
      lifetime |-> 0,
      next_gate |-> 0,
      steps_since_gate |-> 0,
      steps_since_improvement |-> 0,
      last_fitness |-> 0,
      obs |-> _get_obs(SpawnPos(offset)[1], SpawnPos(offset)[2], SpawnAngle, 0) ]

(* The outcome of reset for every offset a caller passes.                  *)
ResetStates == { ResetFields(o) : o \in Offsets }

(* CarEnv.reset(offset), env.py lines 80-104: the caller of this           *)
(* environment starts a new episode.                                       *)
Reset(offset) ==
    \E r \in { s \in ResetStates : s.offset = offset } :
        /\ x' = r.x
        /\ y' = r.y
        /\ angle' = r.angle
        /\ speed' = r.speed
        /\ done' = r.done
        /\ distance' = r.distance
        /\ lifetime' = r.lifetime
        /\ next_gate' = r.next_gate
        /\ steps_since_gate' = r.steps_since_gate
        /\ steps_since_improvement' = r.steps_since_improvement
        /\ last_fitness' = r.last_fitness
        /\ obs' = r.obs
        /\ reward' = 0
        /\ op' = "reset"
        /\ act' = NoAction
        /\ driver' = driver
        /\ spawn_offset' = offset
        /\ crashed' = FALSE
        /\ best_seen' = 0
        /\ stale' = 0
        /\ timed_out' = FALSE
        /\ UNCHANGED aux_vars

(* The state after CarEnv.__init__, which ends with self.reset() (offset   *)
(* 0), env.py line 61; the caller is any of the drivers.                   *)
VehicleInit ==
    \E r \in { s \in ResetStates : s.offset = 0 } :
        /\ x = r.x
        /\ y = r.y
        /\ angle = r.angle
        /\ speed = r.speed
        /\ done = r.done
        /\ distance = r.distance
        /\ lifetime = r.lifetime
        /\ next_gate = r.next_gate
        /\ steps_since_gate = r.steps_since_gate
        /\ steps_since_improvement = r.steps_since_improvement
        /\ last_fitness = r.last_fitness
        /\ obs = r.obs
        /\ reward = 0
        /\ op = "reset"
        /\ act = NoAction
        /\ driver \in Drivers
        /\ spawn_offset = 0
        /\ crashed = FALSE
        /\ best_seen = 0
        /\ stale = 0
        /\ timed_out = FALSE

Init == VehicleInit /\ AuxIdle

-----------------------------------------------------------------------------
(* CarEnv.step, env.py lines 106-167.                                      *)

(* A variant of clamp_steer that lets steering up to twice the nominal     *)
(* range through.                                                          *)
clamp_steer_wide(a) == clip(a[1], -2 * ActScale, 2 * ActScale)

clamp_steer(a) == clip(a[1], -ActScale, ActScale)

clamp_throttle(a) == clip(a[2], 0, ActScale)

clamp_brake(a) == clip(a[3], 0, ActScale)

(* self.angle += steer * 4, env.py line 112.                               *)
new_angle(ang, a) == ang + (clamp_steer(a) * 4) \div ActScale

(* A variant of new_speed without the final clip.                          *)
new_speed_unclipped(spd, a) ==
    LET s1 == spd + (clamp_throttle(a) * 25 * SpeedScale) \div (100 * ActScale)
        s2 == s1 - (clamp_brake(a) * 3 * SpeedScale) \div (10 * ActScale)
    IN  Round(s2 * 98, 100)

(* self.speed += throttle * 0.25; -= brake * 0.3; *= 0.98; clip to         *)
(* [0, MAX_SPEED]: env.py lines 113-116.                                   *)
new_speed(spd, a) ==
    LET s1 == spd + (clamp_throttle(a) * 25 * SpeedScale) \div (100 * ActScale)
        s2 == s1 - (clamp_brake(a) * 3 * SpeedScale) \div (10 * ActScale)
        s3 == Round(s2 * 98, 100)
    IN  clip(s3, 0, MAX_SPEED * SpeedScale)

(* A variant of new_pos that moves the vehicle at half its speed.          *)
new_pos_half(px, py, ang, spd) ==
    << px + Round(Cos(ang) * spd * PosScale, 2 * TrigScale * SpeedScale),
       py + Round(Sin(ang) * spd * PosScale, 2 * TrigScale * SpeedScale) >>

(* self.x += cos(angle) * speed; self.y += sin(angle) * speed: env.py      *)
(* lines 119-120.                                                          *)
new_pos(px, py, ang, spd) ==
    << px + Round(Cos(ang) * spd * PosScale, TrigScale * SpeedScale),
       py + Round(Sin(ang) * spd * PosScale, TrigScale * SpeedScale) >>

(* Squared distance of (px, py) to centerline sample i (1-based).          *)
CenterDist2(px, py, i) ==
    (px - centerline[i][1]) * (px - centerline[i][1])
      + (py - centerline[i][2]) * (py - centerline[i][2])

(* << i, squared distance >> for the first sample i of lo..hi at the least *)
(* distance from (px, py) (found by halving the range).                    *)
RECURSIVE NearestIn(_, _, _, _)
NearestIn(px, py, lo, hi) ==
    IF lo = hi THEN << lo, CenterDist2(px, py, lo) >>
    ELSE LET mid == (lo + hi) \div 2
             a == NearestIn(px, py, lo, mid)
             b == NearestIn(px, py, mid + 1, hi)
         IN  IF b[2] < a[2] THEN b ELSE a

(* CarEnv._nearest_center_idx(), env.py lines 178-180: the 0-based index   *)
(* of the first sample at the least squared distance.                      *)
_nearest_center_idx(px, py) == NearestIn(px, py, 1, NumSamples)[1] - 1

(* Speed or distance (1/SpeedScale) as a reward (1/RewScale).              *)
RewPerSpeed == RewScale \div SpeedScale

(* The forward alignment term max(0, dot * 0.05), env.py lines 128-135.    *)
alignment_reward(px, py, ang, spd) ==
    LET idx == _nearest_center_idx(px, py)
        t   == centerline[((idx + LOOKAHEAD) % NumSamples) + 1]
        c   == centerline[idx + 1]
        tangent == << t[1] - c[1], t[2] - c[2] >>
        vel == << Round(Cos(ang) * spd, TrigScale), Round(Sin(ang) * spd, TrigScale) >>
        nrm == hypot(tangent[1], tangent[2])
        dot == IF nrm = 0 THEN 0
               ELSE Round(vel[1] * tangent[1] + vel[2] * tangent[2], nrm)
    IN  Max(0, (dot * 5 * RewPerSpeed) \div 100)

(* A variant of anti_spin that only penalises a car at a full stop.        *)
anti_spin_stopped(spd, a) ==
    /\ spd = 0
    /\ 2 * Abs(clamp_steer(a)) > ActScale

(* The anti-spin condition self.speed < 1 and abs(steer) > 0.5, env.py     *)
(* line 144.                                                               *)
anti_spin(spd, a) ==
    /\ spd < 1 * SpeedScale
    /\ 2 * Abs(clamp_steer(a)) > ActScale

(* The reward of a tick that ends off the road, env.py lines 122-125.      *)
crash_reward == 0 - 200 * RewScale

(* The reward of a tick that ends on the road, env.py lines 126-152.       *)
track_reward(px, py, ang, spd, a, crossed) ==
    alignment_reward(px, py, ang, spd)
      + (spd * 5 * RewPerSpeed) \div 100
      + (2 * RewScale) \div 100
      - (IF anti_spin(spd, a) THEN (5 * RewScale) \div 10 ELSE 0)
      + (IF crossed THEN 200 * RewScale ELSE 0)

(* A variant of advance_gate that stays on the last gate instead of        *)
(* returning to the first.                                                 *)
advance_gate_no_wrap(k) == Min(k + 1, Len(gates) - 1)

(* self.next_gate after the expected gate k is crossed, env.py line 151.   *)
advance_gate(k) == (k + 1) % Len(gates)

(* A variant of stagnated that is off by one: it ends the episode on the   *)
(* 100th tick without improvement.                                         *)
stagnated_early(n) == n >= MAX_STEPS_WITHOUT_IMPROVEMENT

(* The stagnation test of env.py line 161.                                 *)
stagnated(n) == n > MAX_STEPS_WITHOUT_IMPROVEMENT

(* A variant of step_reward that still pays the survival bonus on a tick   *)
(* that ends off the road.                                                 *)
step_reward_survival(on, px, py, ang, spd, a, crossed) ==
    IF ~on THEN crash_reward + (2 * RewScale) \div 100
    ELSE track_reward(px, py, ang, spd, a, crossed)

(* The reward step returns, env.py lines 122-152.                          *)
step_reward(on, px, py, ang, spd, a, crossed) ==
    IF ~on THEN crash_reward
    ELSE track_reward(px, py, ang, spd, a, crossed)

(* A variant of new_done that forgets the flag of the earlier ticks.       *)
new_done_fresh(d, on, n) == ~on \/ stagnated(n)

(* self.done at the end of step: set off the road (line 124) and when the  *)
(* stagnation counter n exceeds the limit (line 162), never cleared.       *)
new_done(d, on, n) == d \/ ~on \/ stagnated(n)

(* One call step(a).  There is no test of self.done: a finished episode    *)
(* is stepped like any other.  Each local of the method is bound once:     *)
(*   ang1, spd1  the heading and speed after lines 112-116,                *)
(*   p1          the position after lines 119-120,                         *)
(*   on          self._on_track(int(self.x), int(self.y)),                 *)
(*   crossed     the test of line 149, made only on the road,              *)
(*   r           reward,                                                   *)
(*   fp          fitness_progress.                                         *)
Step(a) ==
    \E ang1 \in { new_angle(angle, a) } :
    \E spd1 \in { new_speed(speed, a) } :
    \E p1 \in { new_pos(x, y, ang1, spd1) } :
    \E on \in { _on_track(Trunc(p1[1], PosScale), Trunc(p1[2], PosScale)) } :
    \E crossed \in { on /\ _crossed_line(<< x, y >>, p1,
                                         gates[next_gate + 1][1],
                                         gates[next_gate + 1][2]) } :
    \E r \in { step_reward(on, p1[1], p1[2], ang1, spd1, a, crossed) } :
    \E fp \in { distance * RewPerSpeed + r } :
        /\ angle' = ang1
        /\ speed' = spd1
        /\ x' = p1[1]
        /\ y' = p1[2]
        /\ next_gate' = IF crossed THEN advance_gate(next_gate) ELSE next_gate
        /\ steps_since_gate' = IF crossed THEN 0 ELSE steps_since_gate
        /\ last_fitness' = IF fp > last_fitness THEN fp ELSE last_fitness
        /\ steps_since_improvement' =
               IF fp > last_fitness THEN 0 ELSE steps_since_improvement + 1
        /\ done' = new_done(done, on, IF fp > last_fitness THEN 0
                                      ELSE steps_since_improvement + 1)
        /\ distance' = distance + spd1
        /\ lifetime' = lifetime + 1
        /\ obs' = _get_obs(p1[1], p1[2], ang1, spd1)
        /\ reward' = r
        /\ op' = "step"
        /\ act' = a
        /\ driver' = driver
        /\ spawn_offset' = spawn_offset
        /\ crashed' = (crashed \/ ~on)
        /\ best_seen' = Max(best_seen, fp)
        /\ stale' = IF fp > best_seen THEN 0 ELSE stale + 1
        /\ timed_out' = ( \/ timed_out
                          \/ ( fp <= last_fitness
                               /\ steps_since_improvement + 1
                                      > MAX_STEPS_WITHOUT_IMPROVEMENT ) )
        /\ UNCHANGED aux_vars

-----------------------------------------------------------------------------
(* The callers.                                                            *)

(* net.activate(obs) of the loop of eval.py (lines 13-18) for one fixed    *)
(* network: steer toward the side whose sensors read farther, accelerate   *)
(* while the road ahead is clear, slow down before a bend.                 *)
Pilot(o) ==
    LET left  == o[2] + o[3]
        right == o[5] + o[6]
        band  == ObsScale \div 10
        steer == IF right - left > band THEN ActScale
                 ELSE IF left - right > band THEN -ActScale
                 ELSE 0
    IN  IF 5 * o[4] > 2 * ObsScale \/ 4 * o[8] < ObsScale
        THEN << steer, ActScale, 0 >>
        ELSE IF 16 * o[8] > 5 * ObsScale
        THEN << steer, 0, ActScale >>
        ELSE << steer, 0, 0 >>

(* A caller that passes any action, finished episode or not.               *)
StepFree ==
    /\ driver.kind = "free"
    /\ lifetime < FreeTicks
    /\ \E a \in FreeActions : Step(a)

(* A scenario that repeats one action tick after tick.                     *)
StepHold ==
    /\ driver.kind = "hold"
    /\ lifetime < HoldTicks
    /\ Step(driver.action)

(* run_best of eval.py: while not done, step(net.activate(obs)).           *)
StepPilot ==
    /\ driver.kind = "pilot"
    /\ ~done
    /\ lifetime < PilotTicks
    /\ Step(Pilot(obs))

Next ==
    \/ \E o \in Offsets : Reset(o)
    \/ StepFree
    \/ StepHold
    \/ StepPilot

Spec == Init /\ [][Next]_vars

-----------------------------------------------------------------------------
(* CarEnv objects as values: the methods as functions of the fields.       *)

(* Number of CarEnv objects of the fleet.                                  *)
FleetSize == 2

(* Steps taken in one episode of a fleet object.                           *)
FleetTicks == 2

(* Episodes of one fleet object, the one started by __init__ included.     *)
FleetEpisodes == 2

(* Values of self.color that random.randint draws in reset, env.py line    *)
(* 98.                                                                     *)
Colours == { << 50, 50, 50 >>, << 255, 128, 50 >> }

(* Spawn offsets passed to the fleet: the default and one more.            *)
FleetOffsets == { 0, 3 }

(* Actions passed to the fleet.                                            *)
FleetActions == { << 0, 2, 0 >>, << 2, 2, 0 >> }

(* self.track_mask written as the boundaries of its runs: for each row     *)
(* the columns where a run of road pixels starts and those where one       *)
(* ends.                                                                   *)
mask_runs ==
    [ r \in 0..(SCREEN_H - 1) |->
        << { c \in track_mask[r] : (c - 1) \notin track_mask[r] },
           { c \in track_mask[r] : (c + 1) \notin track_mask[r] } >> ]

(* The fields __init__ assigns before it calls reset, env.py lines 44-56;  *)
(* the fields of reset are not assigned yet.                               *)
Constructed ==
    [ centerline |-> centerline, track_mask |-> mask_runs, gates |-> gates,
      x |-> 0, y |-> 0, angle |-> 0, speed |-> 0, done |-> FALSE,
      distance |-> 0, lifetime |-> 0, next_gate |-> 0,
      steps_since_gate |-> 0, steps_since_improvement |-> 0,
      last_fitness |-> 0, color |-> << 0, 0, 0 >>, prev_pos |-> << 0, 0 >> ]

(* A variant of reset_instance that keeps the speed of the earlier         *)
(* episode.                                                                *)
reset_instance_keep_speed(s, offset, colour) ==
    CHOOSE res \in
      { [ car |-> [ s EXCEPT
                      !.x = r.x, !.y = r.y, !.angle = r.angle,
                      !.done = r.done, !.distance = r.distance,
                      !.lifetime = r.lifetime, !.next_gate = r.next_gate,
                      !.steps_since_gate = r.steps_since_gate,
                      !.steps_since_improvement = r.steps_since_improvement,
                      !.last_fitness = r.last_fitness,
                      !.color = colour,
                      !.prev_pos = << r.x, r.y >> ],
          out |-> [ r.obs EXCEPT ![Len(r.obs)] =
                      Round(s.speed * ObsScale, MAX_SPEED * SpeedScale) ] ] :
        r \in { q \in ResetStates : q.offset = offset } } : TRUE

(* s.reset(offset) when the random colour drawn is colour: the fields of   *)
(* s afterwards (car) and the observation returned (out), env.py lines     *)
(* 80-104.                                                                 *)
reset_instance(s, offset, colour) ==
    CHOOSE res \in
      { [ car |-> [ s EXCEPT
                      !.x = r.x, !.y = r.y, !.angle = r.angle,
                      !.speed = r.speed,
                      !.done = r.done, !.distance = r.distance,
                      !.lifetime = r.lifetime, !.next_gate = r.next_gate,
                      !.steps_since_gate = r.steps_since_gate,
                      !.steps_since_improvement = r.steps_since_improvement,
                      !.last_fitness = r.last_fitness,
                      !.color = colour,
                      !.prev_pos = << r.x, r.y >> ],
          out |-> r.obs ] :
        r \in { q \in ResetStates : q.offset = offset } } : TRUE

(* The locals of s.step(a) up to the reward, each set from the ones        *)
(* before it: ang1 and spd1 (env.py lines 112-116), p1 (lines 119-120),    *)
(* on (line 123), crossed (lines 148-149) and r (lines 122-152).           *)
step_locals(s, a) ==
    CHOOSE l \in
      { [ r |-> step_reward(q.on, q.p1[1], q.p1[2], q.ang1, q.spd1, a,
                            q.crossed) ] @@ q :
        q \in
      { [ crossed |-> m.on /\ _crossed_line(<< s.x, s.y >>, m.p1,
                                            gates[s.next_gate + 1][1],
                                            gates[s.next_gate + 1][2]) ] @@ m :
        m \in
      { [ on |-> _on_track(Trunc(u.p1[1], PosScale),
                           Trunc(u.p1[2], PosScale)) ] @@ u :
        u \in
      { [ p1 |-> new_pos(s.x, s.y, v.ang1, v.spd1) ] @@ v :
        v \in
      { [ ang1 |-> new_angle(s.angle, a),
          spd1 |-> new_speed(s.speed, a) ] } } } } } : TRUE

(* The fields step assigns and the value it returns, given its locals l,   *)
(* env.py lines 112-167.                                                   *)
step_fields(s, l) ==
    LET fp == s.distance * RewPerSpeed + l.r
        n  == IF fp > s.last_fitness THEN 0
              ELSE s.steps_since_improvement + 1
        d  == new_done(s.done, l.on, n)
    IN  [ car |-> [ s EXCEPT
                      !.angle = l.ang1, !.speed = l.spd1,
                      !.x = l.p1[1], !.y = l.p1[2],
                      !.next_gate = IF l.crossed
                                    THEN advance_gate(s.next_gate)
                                    ELSE s.next_gate,
                      !.steps_since_gate = IF l.crossed THEN 0
                                           ELSE s.steps_since_gate,
                      !.last_fitness = IF fp > s.last_fitness THEN fp
                                       ELSE s.last_fitness,
                      !.steps_since_improvement = n,
                      !.done = d,
                      !.distance = s.distance + l.spd1,
                      !.lifetime = s.lifetime + 1,
                      !.prev_pos = l.p1 ],
          out |-> << _get_obs(l.p1[1], l.p1[2], l.ang1, l.spd1), l.r, d >> ]

(* s.step(a): the fields of s afterwards (car) and the returned            *)
(* observation, reward and done flag (out), env.py lines 106-167.          *)
step_instance(s, a) ==
    CHOOSE res \in { step_fields(s, l) : l \in { step_locals(s, a) } } : TRUE

(* A variant of put in which the objects share their fields (class         *)
(* attributes in place of instance attributes).                            *)
put_shared(f, i, s) == [ j \in DOMAIN f |-> s ]

(* The fleet after a method wrote the fields s of object i: every          *)
(* assignment of reset and step is to an attribute of self.                *)
put(f, i, s) == [ f EXCEPT ![i] = s ]

(* fleet[i].reset(o), the colour drawn being c.  The first reset of an     *)
(* object is the call self.reset() that ends __init__ (env.py line 61),    *)
(* with the default offset.                                                *)
FleetReset(i, o, c) ==
    /\ episodes[i].number < FleetEpisodes
    /\ episodes[i].number = 0 => o = 0
    /\ \E res \in { reset_instance(fleet[i], o, c) } :
          /\ fleet' = put(fleet, i, res.car)
          /\ episodes' = [ episodes EXCEPT ![i] =
                             [ number |-> @.number + 1,
                               earlier |-> (@.earlier \/ Len(@.actions) > 0),
                               offset |-> o,
                               actions |-> << >>,
                               returned |-> << res.out >> ] ]
    /\ UNCHANGED << vehicle_vars, build, loop_vars >>

(* fleet[i].step(a).                                                       *)
FleetStep(i, a) ==
    /\ episodes[i].number > 0
    /\ Len(episodes[i].actions) < FleetTicks
    /\ \E res \in { step_instance(fleet[i], a) } :
          /\ fleet' = put(fleet, i, res.car)
          /\ episodes' = [ episodes EXCEPT ![i] =
                             [ @ EXCEPT !.actions = Append(@, a),
                                        !.returned = Append(@, res.out) ] ]
    /\ UNCHANGED << vehicle_vars, build, loop_vars >>

(* FleetSize calls CarEnv() under way, each about to end with the call     *)
(* self.reset() of env.py line 61.                                         *)
FleetInit ==
    /\ VehicleInit
    /\ driver = [kind |-> "pilot", action |-> NoAction]
    /\ BuildIdle
    /\ LoopIdle
    /\ fleet = [ i \in 1..FleetSize |-> Constructed ]
    /\ episodes = [ i \in 1..FleetSize |->
                      [ number |-> 0, earlier |-> FALSE, offset |-> 0,
                        actions |-> << >>, returned |-> << >> ] ]

FleetNext ==
    \/ \E i \in 1..FleetSize, o \in FleetOffsets, c \in Colours :
          FleetReset(i, o, c)
    \/ \E i \in 1..FleetSize, a \in FleetActions : FleetStep(i, a)

FleetSpec == FleetInit /\ [][FleetNext]_vars

-----------------------------------------------------------------------------
(* The callers' loops: the steady-state loop of train.py (lines 24-92)     *)
(* and run_best of eval.py (lines 13-18).  Genomes, networks and fitness   *)
(* are left out: the loops read car.done and entry["steps"] only, and      *)
(* best_genomes is never empty at line 66, where a genome was just         *)
(* appended.                                                               *)

(* Cars of the modelled population (POP_SIZE in train.py).                 *)
TrainPop == 2

(* The step limit of the modelled run (MAX_STEPS in train.py).             *)
TrainMaxSteps == 2

(* Generations after which the modelled run is left alone.                 *)
TrainGenerations == 2

(* Ticks of run_best that are followed.                                    *)
EvalTicks == 32

(* Offsets random.randint(0, POP_SIZE) draws at train.py line 73: one on   *)
(* the road and one off the road.                                          *)
TrainOffsets == { 0, 10 }

(* The colour drawn by reset in the loops.                                 *)
TrainColours == { << 50, 50, 50 >> }

(* What net.activate(obs) answers in train.py: full throttle, or full      *)
(* steer and half throttle.                                                *)
TrainActions == { << 0, 2, 0 >>, << 2, 1, 0 >> }

(* What net.activate(obs) answers in eval.py: full throttle.               *)
EvalActions == { << 0, 2, 0 >> }

(* car = CarEnv(); car.reset(offset=o), train.py lines 29-30 and 72-73.    *)
spawn_car(o, c) == reset_instance(reset_instance(Constructed, 0, c).car, o, c).car

(* A variant of retired that only looks at the step count.                 *)
retired_by_steps(e) == e.steps > TrainMaxSteps

(* The test car.done or entry["steps"] > MAX_STEPS, train.py line 61.      *)
retired(e) == e.car.done \/ e.steps > TrainMaxSteps

(* A variant of next_generation that advances on every replacement.        *)
next_generation_each(g, r) == g + 1

(* generation after a replacement that brought replacements_this_gen to    *)
(* r, train.py lines 79-80.                                                *)
next_generation(g, r) == IF r >= TrainPop THEN g + 1 ELSE g

(* One round of the loop of train.py lines 25-31: the car of genome gid    *)
(* is built, reset with offset gid and appended.                           *)
InitPopulation ==
    /\ pc = "init"
    /\ \E c \in TrainColours :
          population' = Append(population,
                               [ car |-> spawn_car(Len(population), c),
                                 steps |-> 0 ])
    /\ pc' = IF Len(population) + 1 = TrainPop THEN "frame" ELSE "init"
    /\ cursor' = IF Len(population) + 1 = TrainPop THEN 1 ELSE 0
    /\ called' = [op |-> "spawn", was_done |-> FALSE, steps |-> 0]
    /\ UNCHANGED << alive_population, generation, replacements_this_gen,
                    total_replacements, eval_env >>
    /\ UNCHANGED << vehicle_vars, build, fleet_vars >>

(* The if-branch of the loop body, train.py lines 61-81: the entry is      *)
(* dropped and a new car takes its place in alive_population.              *)
Retire ==
    /\ pc = "frame"
    /\ cursor \in 1..Len(population)
    /\ retired(population[cursor])
    /\ \E o \in TrainOffsets, c \in TrainColours :
          alive_population' = Append(alive_population,
                                     [ car |-> spawn_car(o, c), steps |-> 0 ])
    /\ total_replacements' = total_replacements + 1
    /\ generation' = next_generation(generation, replacements_this_gen + 1)
    /\ replacements_this_gen' = IF replacements_this_gen + 1 >= TrainPop
                                THEN 0 ELSE replacements_this_gen + 1
    /\ cursor' = cursor + 1
    /\ called' = [ op |-> "retire",
                   was_done |-> population[cursor].car.done,
                   steps |-> population[cursor].steps ]
    /\ UNCHANGED << population, pc, eval_env >>
    /\ UNCHANGED << vehicle_vars, build, fleet_vars >>

(* The else-branch of the loop body, train.py lines 82-90: the car is      *)
(* stepped once and the entry is kept.                                     *)
StepEntry ==
    /\ pc = "frame"
    /\ cursor \in 1..Len(population)
    /\ ~ retired(population[cursor])
    /\ \E a \in TrainActions :
       \E res \in { step_instance(population[cursor].car, a) } :
          alive_population' = Append(alive_population,
                                     [ car |-> res.car,
                                       steps |-> population[cursor].steps + 1 ])
    /\ cursor' = cursor + 1
    /\ called' = [ op |-> "step",
                   was_done |-> population[cursor].car.done,
                   steps |-> population[cursor].steps ]
    /\ UNCHANGED << population, generation, replacements_this_gen,
                    total_replacements, pc, eval_env >>
    /\ UNCHANGED << vehicle_vars, build, fleet_vars >>

(* The end of one iteration of `while True`, train.py line 92, and the     *)
(* start of the next, line 55.                                             *)
EndFrame ==
    /\ pc = "frame"
    /\ cursor = Len(population) + 1
    /\ generation < TrainGenerations
    /\ population' = alive_population
    /\ alive_population' = << >>
    /\ cursor' = 1
    /\ called' = [op |-> "frame", was_done |-> FALSE, steps |-> 0]
    /\ UNCHANGED << generation, replacements_this_gen, total_replacements,
                    pc, eval_env >>
    /\ UNCHANGED << vehicle_vars, build, fleet_vars >>

(* One iteration of `while not done` in run_best, eval.py lines 16-18;     *)
(* env is the only entry of population.                                    *)
EvalStep ==
    /\ pc = "eval"
    /\ ~ eval_env.done
    /\ eval_env.ticks < EvalTicks
    /\ \E a \in EvalActions :
       \E res \in { step_instance(population[1].car, a) } :
          /\ population' = << [ car |-> res.car,
                                steps |-> population[1].steps + 1 ] >>
          /\ eval_env' = [done |-> res.out[3], ticks |-> eval_env.ticks + 1]
    /\ called' = [ op |-> "step",
                   was_done |-> population[1].car.done,
                   steps |-> population[1].steps ]
    /\ UNCHANGED << alive_population, cursor, generation,
                    replacements_this_gen, total_replacements, pc >>
    /\ UNCHANGED << vehicle_vars, build, fleet_vars >>

(* train.py before its first car is built (line 24), or eval.py after      *)
(* env = CarEnv(render=True); obs = env.reset(); done = False (lines       *)
(* 13-15).                                                                 *)
LoopInit ==
    /\ VehicleInit
    /\ driver = [kind |-> "pilot", action |-> NoAction]
    /\ BuildIdle
    /\ FleetIdle
    /\ pc \in { "init", "eval" }
    /\ population \in IF pc = "init" THEN { << >> }
                      ELSE { << [ car |-> spawn_car(0, c), steps |-> 0 ] >> :
                             c \in TrainColours }
    /\ alive_population = << >>
    /\ cursor = 0
    /\ generation = 0
    /\ replacements_this_gen = 0
    /\ total_replacements = 0
    /\ eval_env = [done |-> FALSE, ticks |-> 0]
    /\ called = [op |-> "none", was_done |-> FALSE, steps |-> 0]

LoopNext ==
    \/ InitPopulation
    \/ Retire
    \/ StepEntry
    \/ EndFrame
    \/ EvalStep

LoopSpec == LoopInit /\ [][LoopNext]_vars

-----------------------------------------------------------------------------
(* The track-building functions called on their own: catmull_rom_chain     *)
(* with any list of control points and any count, CarEnv._make_gates with  *)
(* any n on a constructed CarEnv.                                          *)

(* Longest list of control points passed.                                  *)
MaxPoints == 6

(* Largest count passed (the smallest is -1).                              *)
MaxCount == 13

(* Largest |n| passed to _make_gates, besides len(centerline) and          *)
(* len(centerline) + 1.                                                    *)
MaxGateCount == 14

(* Two lists the control points are taken from: the points of the track    *)
(* and a ring around a square.                                             *)
PointLists ==
    { pts,
      << <<100, 100>>, <<300, 100>>, <<500, 100>>, <<500, 300>>,
         <<500, 500>>, <<300, 500>>, <<100, 500>>, <<100, 300>>,
         <<80, 200>> >> }

ChainInputs ==
    { [ fn |-> "catmull_rom_chain",
        points |-> SubSeq(l, 1, Min(k, Len(l))), count |-> c, n |-> 0,
        phase |-> "called", raised |-> "none", curve |-> << >>,
        made |-> << >> ] :
      l \in PointLists, k \in 0..MaxPoints, c \in (-1)..MaxCount }

GateInputs ==
    { [ fn |-> "_make_gates", points |-> << >>, count |-> 0, n |-> g,
        phase |-> "called", raised |-> "none", curve |-> << >>,
        made |-> << >> ] :
      g \in ((-MaxGateCount)..MaxGateCount) \cup { NumSamples, NumSamples + 1 } }

(* The exception catmull_rom_chain(points, count) ends with, or "none":    *)
(* np.linspace raises ValueError for a negative number of samples once     *)
(* the loop over the segments is entered (env.py line 19).                 *)
chain_raises(points, count) ==
    IF Len(points) >= 2 /\ count \div Len(points) < 0 THEN "ValueError"
    ELSE "none"

(* The exception _make_gates(n) ends with, or "none": len // n divides by  *)
(* zero for n = 0 (env.py line 66) and range() rejects a step of 0, which  *)
(* len // n is for n > len (env.py line 68).                               *)
gates_raise(n) ==
    IF n = 0 THEN "ZeroDivisionError"
    ELSE IF n > NumSamples THEN "ValueError"
    ELSE "none"

(* The list _make_gates(n) returns when it raises nothing: for n < 0 the   *)
(* step len // n is negative and range(0, len, step) is empty.             *)
gates_made(n) == IF n < 0 THEN << >> ELSE _make_gates(n)

(* The call catmull_rom_chain(build.points, build.count).                  *)
CallChain ==
    /\ build.fn = "catmull_rom_chain"
    /\ build.phase = "called"
    /\ \E e \in { chain_raises(build.points, build.count) } :
          build' = IF e # "none"
                   THEN [ build EXCEPT !.phase = "raised", !.raised = e ]
                   ELSE [ build EXCEPT
                            !.phase = "returned",
                            !.curve = catmull_rom_chain(build.points,
                                                        build.count) ]
    /\ UNCHANGED << vehicle_vars, fleet_vars, loop_vars >>

(* The call self._make_gates(build.n) on a constructed CarEnv.             *)
CallGates ==
    /\ build.fn = "_make_gates"
    /\ build.phase = "called"
    /\ \E e \in { gates_raise(build.n) } :
          build' = IF e # "none"
                   THEN [ build EXCEPT !.phase = "raised", !.raised = e ]
                   ELSE [ build EXCEPT !.phase = "returned",
                                       !.made = gates_made(build.n) ]
    /\ UNCHANGED << vehicle_vars, fleet_vars, loop_vars >>

BuildInit ==
    /\ VehicleInit
    /\ driver = [kind |-> "pilot", action |-> NoAction]
    /\ build \in ChainInputs \cup GateInputs
    /\ FleetIdle
    /\ LoopIdle

BuildNext == CallChain \/ CallGates

BuildSpec == BuildInit /\ [][BuildNext]_vars

-----------------------------------------------------------------------------
(* Properties.                                                             *)

(* C1: stagnation bound.  In an episode without a crash, done is true      *)
(* exactly when at least MAX_STEPS_WITHOUT_IMPROVEMENT + 1 = 101 ticks     *)
(* have passed since the last tick whose fitness progress exceeded the     *)
(* best value seen (or since reset): stagnation ends the episode on the    *)
(* 101st such tick and on no earlier one.                                  *)
C1_StagnationBound ==
    ~crashed => (done <=> stale >= MAX_STEPS_WITHOUT_IMPROVEMENT + 1)

(* An episode that improved on its first tick only and was ended by        *)
(* stagnation on tick 102, the 101st tick after the improvement.           *)
C1_Witness ==
    /\ done
    /\ ~crashed
    /\ stale = MAX_STEPS_WITHOUT_IMPROVEMENT + 1
    /\ lifetime = MAX_STEPS_WITHOUT_IMPROVEMENT + 2

(* C2: crash termination.  Every step whose new position is not drivable   *)
(* sets done, returns a reward of exactly -200 (no other term is added)    *)
(* and leaves the expected-gate index unchanged.                           *)
C2_CrashTermination ==
    [][ (op' = "step" /\ ~_on_track(Trunc(x', PosScale), Trunc(y', PosScale)))
          => /\ done'
             /\ reward' = 0 - 200 * RewScale
             /\ next_gate' = next_gate ]_vars

(* A vehicle that drove along the road, improving up to the tick before,   *)
(* and then left it.                                                       *)
C2_Witness ==
    /\ op = "step"
    /\ lifetime > 1
    /\ speed > 0
    /\ steps_since_improvement = 1
    /\ ~_on_track(Trunc(x, PosScale), Trunc(y, PosScale))
    /\ done
    /\ reward = 0 - 200 * RewScale

(* C3: observation bounds.  Every observation reset or step returns has    *)
(* 8 components, 7 sensor distances and the speed, each within [0, 1].     *)
C3_ObservationBounds ==
    /\ DOMAIN obs = 1..8
    /\ \A k \in 1..8 : 0 <= obs[k] /\ obs[k] <= ObsScale

(* C4: gate count.  _make_gates(n) yields exactly n gates, 12 here, the    *)
(* gate count divides the number of centerline samples, and the expected   *)
(* gate is always one of these n gates.                                    *)
C4_GateCount ==
    /\ Len(_make_gates(GATE_COUNT)) = GATE_COUNT
    /\ Len(gates) = 12
    /\ NumSamples % Len(gates) = 0
    /\ next_gate \in 0..(GATE_COUNT - 1)

(* C5: gate cyclicity.  With k the expected gate and gateCount the number  *)
(* of gates built: a tick that ends on the road and whose movement segment *)
(* intersects gate k adds exactly +200 to the other reward terms and moves *)
(* the expected index to (k + 1) mod gateCount; a tick whose movement      *)
(* segment does not intersect gate k gets no bonus and leaves the index    *)
(* unchanged.  The index stays within 0..gateCount-1 and moves by at most  *)
(* one gate per tick.                                                      *)
C5_GateCyclicity ==
    [][ op' = "step" =>
          LET k   == next_gate
              hit == _crossed_line(<< x, y >>, << x', y' >>,
                                   gates[k + 1][1], gates[k + 1][2])
              on  == _on_track(Trunc(x', PosScale), Trunc(y', PosScale))
              plain == track_reward(x', y', angle', speed', act', FALSE)
          IN  /\ (on /\ hit) =>
                    /\ reward' = plain + 200 * RewScale
                    /\ next_gate' = (k + 1) % Len(gates)
              /\ ~hit =>
                    /\ next_gate' = k
                    /\ reward' = IF on THEN plain ELSE 0 - 200 * RewScale
              /\ next_gate' \in 0..(Len(gates) - 1)
              /\ next_gate' \in { k, (k + 1) % Len(gates) } ]_vars

(* A vehicle that has driven a whole lap: it just crossed the last gate,   *)
(* was paid the bonus, and expects the first gate again.                   *)
C5_Witness ==
    /\ op = "step"
    /\ ~done
    /\ lifetime > Len(gates)
    /\ reward >= 200 * RewScale
    /\ next_gate = 0

(* C6: step after done is rejected.  A step made while done is already     *)
(* true changes none of position, heading, speed, cumulative distance,     *)
(* lifetime, gate index and stagnation counters.                           *)
C6_StepAfterDoneRejected ==
    [][ (done /\ op' = "step") =>
          UNCHANGED << x, y, angle, speed, distance, lifetime, next_gate,
                       steps_since_gate, steps_since_improvement >> ]_vars

(* A point in real-valued coordinates (1/PosScale) outside the world.      *)
OutsideWorld(px, py) ==
    \/ px < 0
    \/ py < 0
    \/ px >= SCREEN_W * PosScale
    \/ py >= SCREEN_H * PosScale

(* The marching step at which sensor k stopped, as the observation         *)
(* reports it (RAY_RANGE_END if the ray met no pixel off the road).        *)
StopIndex(k) == ((obs[k] * SENSOR_NORM) \div ObsScale) \div RAY_STEP

(* C7: world boundary.  A step whose new position lies outside the world   *)
(* (real-valued coordinates) is a crash: done and a reward of -200; and no *)
(* sensor ray passes a probe point outside the world as drivable (every    *)
(* probe point before the one that stopped the ray is inside the world).   *)
C7_WorldBoundary ==
    /\ (op = "step" /\ OutsideWorld(x, y)) =>
          (done /\ reward = 0 - 200 * RewScale)
    /\ \A k \in 1..Len(SensorAngles) :
          \A i \in 1..(StopIndex(k) - 1) :
              LET p == ProbePoint(x, y, angle + SensorAngles[k], i)
              IN  ~OutsideWorld(p[1], p[2])

(* A vehicle that stepped to a position below the bottom edge of the       *)
(* world, in a column where the road reaches the bottom row.               *)
C7_Witness ==
    /\ op = "step"
    /\ y >= SCREEN_H * PosScale
    /\ _on_track(Trunc(x, PosScale), SCREEN_H - 1)
    /\ done
    /\ reward = 0 - 200 * RewScale

(* Raw actions with components inside and outside the nominal ranges       *)
(* (in 1/ActScale: -1.5, -0.5, 0.5 and 1.5).                               *)
RawActions == { << s, t, b >> : s \in {-3, -1, 1, 3}, t \in {-3, -1, 1, 3},
                               b \in {-3, -1, 1, 3} }

(* An action clamped to steer in [-1, 1], throttle and brake in [0, 1].    *)
Clamped(a) == << Max(-ActScale, Min(ActScale, a[1])),
                 Max(0, Min(ActScale, a[2])),
                 Max(0, Min(ActScale, a[3])) >>

(* C8: clamping.  From every state, a step with any raw action produces    *)
(* the same heading, the same speed and the same anti-spin decision as a   *)
(* step with that action clamped to the nominal ranges.                    *)
C8_Clamping ==
    \A a \in RawActions :
        LET c == Clamped(a)
        IN  /\ new_angle(angle, a) = new_angle(angle, c)
            /\ new_speed(speed, a) = new_speed(speed, c)
            /\ anti_spin(new_speed(speed, a), a)
                  <=> anti_spin(new_speed(speed, c), c)

(* A step with steer 2.5, throttle 1.5 and brake -0.5 was accepted and     *)
(* turned the vehicle by 4 degrees at full throttle and no brake.          *)
C8_Witness ==
    /\ op = "step"
    /\ act = << 5, 3, -1 >>
    /\ lifetime = 1
    /\ angle = SpawnAngle + 4
    /\ speed = (25 * SpeedScale * 98) \div (100 * 100)

(* C9: speed invariant.  The speed is always within [0, MAX_SPEED], and    *)
(* every step sets it to                                                   *)
(* clamp((speed + 0.25 * throttle - 0.30 * brake) * 0.98, 0, MAX_SPEED)    *)
(* for the clamped throttle and brake of its action.                       *)
C9_SpeedInvariant ==
    /\ [](0 <= speed /\ speed <= MAX_SPEED * SpeedScale)
    /\ [][ op' = "step" =>
              LET c == Clamped(act')
                  raw == speed + (25 * SpeedScale * c[2]) \div (100 * ActScale)
                               - (30 * SpeedScale * c[3]) \div (100 * ActScale)
              IN  speed' = Max(0, Min(MAX_SPEED * SpeedScale,
                                      Round(raw * 98, 100))) ]_vars

(* The vehicle reached MAX_SPEED under throttle and was held there.        *)
C9_Witness ==
    /\ op = "step"
    /\ act = << 0, 2, 0 >>
    /\ speed = MAX_SPEED * SpeedScale
    /\ lifetime > 50

(* The straight-line scenario: after reset(0) the caller applies steer 0,  *)
(* throttle 1, brake 0 on every tick.                                      *)
StraightLine ==
    /\ spawn_offset = 0
    /\ driver = [kind |-> "hold", action |-> << 0, 2, 0 >>]

(* C10 as stated: in the straight-line scenario done stays false on every  *)
(* one of the first 50 ticks and the cumulative distance strictly          *)
(* increases on every tick.                                                *)
C10_StraightLine ==
    [][ (StraightLine /\ op' = "step" /\ lifetime' <= 50) =>
          (~done' /\ distance' > distance) ]_vars

(* C10 amended: in the straight-line scenario the cumulative distance      *)
(* strictly increases on every one of the first 50 ticks; done stays false *)
(* on ticks 1..28 and is true from tick 29 on, when the vehicle leaves the *)
(* road with a reward of -200.                                             *)
C10_StraightLineAmended ==
    [][ (StraightLine /\ op' = "step" /\ lifetime' <= 50) =>
          /\ distance' > distance
          /\ done' <=> (lifetime' >= 29)
          /\ (lifetime' = 29) =>
                reward' = 0 - 200 * RewScale ]_vars

(* The 50th tick of the straight-line scenario.                            *)
C10_Witness ==
    /\ StraightLine
    /\ op = "step"
    /\ lifetime = 50
    /\ done
    /\ distance > 0


(* The spin-in-place scenario: reset() followed by (steer 1, throttle 0,   *)
(* brake 0) on every tick.                                                 *)
SpinInPlace ==
    /\ driver = [kind |-> "hold", action |-> << ActScale, 0, 0 >>]
    /\ spawn_offset = 0

(* C11: on every tick that ends on the road with the updated speed below   *)
(* 1 and the clamped |steer| above 0.5 the reward is the alignment, speed  *)
(* and survival terms minus 0.5, plus 200 when the expected gate was       *)
(* crossed; in the spin-in-place scenario the first 10 ticks keep the      *)
(* speed at 0 and each pays exactly 0.02 - 0.5 with no gate crossed.       *)
C11_AntiSpin ==
    [][ /\ ( /\ op' = "step"
             /\ _on_track(Trunc(x', PosScale), Trunc(y', PosScale))
             /\ speed' < 1 * SpeedScale
             /\ 2 * Abs(Clamped(act')[1]) > ActScale )
           => reward' = alignment_reward(x', y', angle', speed')
                          + (speed' * 5 * RewPerSpeed) \div 100
                          + (2 * RewScale) \div 100
                          - (5 * RewScale) \div 10
                          + (IF next_gate' # next_gate THEN 200 * RewScale
                             ELSE 0)
        /\ ( /\ SpinInPlace'
             /\ op' = "step"
             /\ lifetime' <= 10 )
           => /\ speed' = 0
              /\ next_gate' = next_gate
              /\ reward' = (2 * RewScale) \div 100 - (5 * RewScale) \div 10
      ]_vars

(* The 10th tick of the spin-in-place scenario.                            *)
C11_Witness ==
    /\ SpinInPlace
    /\ op = "step"
    /\ lifetime = 10
    /\ speed = 0
    /\ ~done
    /\ reward = (2 * RewScale) \div 100 - (5 * RewScale) \div 10

(* C16: the ticks-since-last-gate counter is 0 after reset and after a     *)
(* tick that crosses the expected gate, and one more than before after     *)
(* every other tick.                                                       *)
C16_TicksSinceGate ==
    [][ /\ op' = "reset" => steps_since_gate' = 0
        /\ op' = "step" =>
               steps_since_gate' = IF next_gate' # next_gate THEN 0
                                   ELSE steps_since_gate + 1 ]_vars

(* The distance the k-th sensor measured for the pose of the state         *)
(* (the reading of the observation times 150).                             *)
RayValue(k) == (obs[k] * SENSOR_NORM) \div ObsScale

(* The pixel at i marching steps along the k-th ray is not drivable.       *)
ProbeOff(k, i) ==
    LET p == ProbePixel(x, y, angle + SensorAngles[k], i)
    IN  ~ _on_track(p[1], p[2])

(* C17: for the pose and every ray of every reachable state, the sensor    *)
(* value is 4*i for the smallest i in 1..150 whose probe pixel is not      *)
(* drivable, 600 if there is none, and so a multiple of 4 in 4..600.       *)
C17_SensorRay ==
    \A k \in 1..Len(SensorAngles) :
        LET d == RayValue(k)
        IN  /\ d \in 4..600
            /\ d % 4 = 0
            /\ \A i \in 1..((d \div 4) - 1) : ~ ProbeOff(k, i)
            /\ d < 600 => ProbeOff(k, d \div 4)

(* A pose reached by driving where one ray marches all its steps without   *)
(* leaving the road and another stops at a probe off the road.             *)
C17_Witness ==
    /\ op = "step"
    /\ ~done
    /\ \E k \in 1..Len(SensorAngles) :
           RayValue(k) = 600 /\ \A i \in 1..149 : ~ ProbeOff(k, i)
    /\ \E k \in 1..Len(SensorAngles) :
           RayValue(k) < 600 /\ ProbeOff(k, RayValue(k) \div 4)

(* C18: within an episode a step never clears done and only reset does;    *)
(* done holds only if a step of the episode ended off the road or left     *)
(* the stagnation counter above 100; while done is false the stagnation    *)
(* counter is at most 100.                                                 *)
C18_StickyDone ==
    /\ [](done => (crashed \/ timed_out))
    /\ [](~done => steps_since_improvement <= MAX_STEPS_WITHOUT_IMPROVEMENT)
    /\ [][ /\ (done /\ op' = "step") => done'
           /\ (done /\ ~done') => op' = "reset" ]_vars

(* A finished episode is stepped again and stays finished, once after a    *)
(* crash and once after stagnation.                                        *)
C18_Witness ==
    /\ op = "step"
    /\ done
    /\ timed_out
    /\ ~crashed
    /\ steps_since_improvement > MAX_STEPS_WITHOUT_IMPROVEMENT + 1

(* C12: a call of catmull_rom_chain with fewer than 4 control points, and  *)
(* a call of _make_gates with a count <= 0, ends with a configuration      *)
(* error and returns nothing.                                              *)
C12_ConfigErrors ==
    ( /\ build.phase \in { "returned", "raised" }
      /\ \/ build.fn = "catmull_rom_chain" /\ Len(build.points) < 4
         \/ build.fn = "_make_gates" /\ build.n <= 0 )
    => ( build.phase = "raised" /\ build.raised = "ConfigError" )

(* The k-th segment of a returned curve of Len(points) segments.           *)
CurveSegment(k) ==
    LET per == Len(build.curve) \div Len(build.points)
    IN  SubSeq(build.curve, (k - 1) * per + 1, k * per)

ScaledPoint(p) == << p[1] * PosScale, p[2] * PosScale >>

(* C15: for every list of at least 4 control points the curve returned     *)
(* starts at the first control point, its last sample is its first         *)
(* sample, and each segment starts at its control point p1 and ends at     *)
(* the next control point p2 (the first one after the last).               *)
C15_LoopClosure ==
    ( /\ build.fn = "catmull_rom_chain"
      /\ build.phase = "returned"
      /\ Len(build.points) >= 4 )
    => /\ Len(build.curve) >= Len(build.points)
       /\ build.curve[1] = ScaledPoint(build.points[1])
       /\ build.curve[Len(build.curve)] = build.curve[1]
       /\ \A k \in 1..Len(build.points) :
             LET seg == CurveSegment(k)
                 nxt == (k % Len(build.points)) + 1
             IN  /\ seg[1] = ScaledPoint(build.points[k])
                 /\ seg[Len(seg)] = ScaledPoint(build.points[nxt])

(* C13: two episodes with the same spawn offset and the same actions       *)
(* return the same observations, rewards and done flags, whatever colour   *)
(* reset drew and whatever episode the object ran before.                  *)
C13_Determinism ==
    \A i, j \in 1..FleetSize :
        ( /\ episodes[i].number > 0
          /\ episodes[j].number > 0
          /\ episodes[i].offset = episodes[j].offset
          /\ episodes[i].actions = episodes[j].actions )
        => episodes[i].returned = episodes[j].returned

(* Object 1 ran an earlier episode with steps, object 2 is in its first    *)
(* episode, their colours differ, and both have now taken the same         *)
(* FleetTicks actions from the same offset.                                *)
C13_Witness ==
    /\ episodes[1].number = 2
    /\ episodes[1].earlier
    /\ episodes[2].number = 1
    /\ fleet[1].color # fleet[2].color
    /\ episodes[1].offset = episodes[2].offset
    /\ episodes[1].actions = episodes[2].actions
    /\ Len(episodes[1].actions) = FleetTicks
    /\ episodes[1].returned = episodes[2].returned
    /\ fleet[1].speed > 0

(* C14: no call of reset or step changes the centerline, the mask or the   *)
(* gates of any object, and a call on one object leaves the fields of      *)
(* every other object as they were.                                        *)
C14_Frame ==
    [][ \A i \in 1..FleetSize :
          /\ fleet'[i].centerline = fleet[i].centerline
          /\ fleet'[i].track_mask = fleet[i].track_mask
          /\ fleet'[i].gates = fleet[i].gates
          /\ episodes'[i] = episodes[i] => fleet'[i] = fleet[i] ]_vars

(* Object 2 was reset and stepped while object 1, two ticks into its       *)
(* first episode, kept its fields and its track.                           *)
C14_Witness ==
    /\ episodes[1].number = 1
    /\ Len(episodes[1].actions) = FleetTicks
    /\ episodes[2].number = 2
    /\ Len(episodes[2].actions) = 1
    /\ fleet[1].lifetime = FleetTicks
    /\ fleet[2].lifetime = 1
    /\ fleet[1].centerline = centerline
    /\ fleet[1].gates = gates
    /\ fleet[2].track_mask = mask_runs

(* Every entry of the loops: those of population and those already moved   *)
(* to alive_population.                                                    *)
LoopEntries ==
    { population[k] : k \in 1..Len(population) }
      \cup { alive_population[k] : k \in 1..Len(alive_population) }

(* C19: neither loop calls step on a car whose done flag is set; in        *)
(* train.py an entry that is done or was stepped more than the step        *)
(* limit is replaced, in the same iteration and at the same place, by a    *)
(* car just reset and not yet stepped; the population has its full size    *)
(* after every iteration; no car is stepped more than the limit plus one   *)
(* times.                                                                  *)
C19_NoStepAfterDone ==
    /\ [](called.op = "step" => ~called.was_done)
    /\ [](\A e \in LoopEntries :
            /\ e.car.lifetime = e.steps
            /\ pc = "frame" => e.steps <= TrainMaxSteps + 1)
    /\ [](called.op = "frame" => Len(population) = TrainPop)
    /\ [][ ( /\ pc = "frame"
             /\ cursor \in 1..Len(population)
             /\ cursor' = cursor + 1 )
           => LET old == population[cursor]
                  new == alive_population'[cursor]
              IN  /\ Len(alive_population') = cursor
                  /\ IF old.car.done \/ old.steps > TrainMaxSteps
                     THEN /\ new.steps = 0
                          /\ new.car.lifetime = 0
                          /\ ~new.car.done
                          /\ called'.op = "retire"
                     ELSE /\ new.steps = old.steps + 1
                          /\ called'.op = "step" ]_vars

(* An iteration of train.py has just ended, after at least one             *)
(* replacement, with a full population in which one car was stepped the    *)
(* limit plus one times and another crashed on its first step; both are    *)
(* due to be replaced, not stepped, in the next iteration.                 *)
C19_Witness ==
    /\ pc = "frame"
    /\ called.op = "frame"
    /\ Len(population) = TrainPop
    /\ total_replacements > 0
    /\ \E k \in 1..Len(population) :
          population[k].steps = TrainMaxSteps + 1 /\ ~population[k].car.done
    /\ \E k \in 1..Len(population) :
          population[k].steps = 1 /\ population[k].car.done

(* C20: total_replacements = generation * POP_SIZE +                       *)
(* replacements_this_gen with 0 <= replacements_this_gen < POP_SIZE in     *)
(* every state of the training loop; generation only changes by one, at    *)
(* the replacement that completes POP_SIZE replacements, and never at      *)
(* the end of a frame.                                                     *)
C20_GenerationCounter ==
    /\ [](total_replacements = generation * TrainPop + replacements_this_gen)
    /\ [](replacements_this_gen \in 0..(TrainPop - 1))
    /\ [][ generation' # generation
           => /\ generation' = generation + 1
              /\ total_replacements' = total_replacements + 1
              /\ replacements_this_gen = TrainPop - 1
              /\ replacements_this_gen' = 0
              /\ called'.op = "retire" ]_vars
    /\ [][ called'.op = "frame" => generation' = generation ]_vars

(* The replacement that completes the second full turnover of the          *)
(* population has just been made.                                          *)
C20_Witness ==
    /\ pc = "frame"
    /\ generation = 2
    /\ replacements_this_gen = 0
    /\ total_replacements = 2 * TrainPop
    /\ called.op = "retire"

=============================================================================
